---- MODULE Spec2Model ----
(***************************************************************************)
(* State-machine model of src/main.py, the medication usage dashboard.     *)
(*                                                                         *)
(* The program is a Streamlit script: it runs top to bottom once when the  *)
(* session starts and once more after every widget change.  One action of  *)
(* the model is one such run, from load_data() (line 22) to the last tab   *)
(* (line 156), or to the statement that raises.                            *)
(*                                                                         *)
(* Nullable values (pandas NaN / NaT, a widget that was never rendered)    *)
(* are tuples: <<>> is the null, <<v>> is the number v, <<y, m, d>> is a   *)
(* date.  Means, percentiles and the variance are exact fractions          *)
(* [num, den]; the standard deviation is the square root of the fraction   *)
(* kept in "std" and a correlation is num / sqrt(den2).                    *)
(***************************************************************************)
EXTENDS Integers, Sequences, FiniteSets, TLC

VARIABLES
    csv,                    \* rows of pharma.csv (header Date, A, B)
    cache,                  \* what st.cache_data holds for load_data()
    df,                     \* the script's global df after the last run
    phase,                  \* "start", "initial" (first run done), "interactive"
    selected_medications,   \* widget value, a sequence of column names
    year_range,             \* widget value <<lo, hi>>
    selected_months,        \* widget value, a set of Month values
    max_day,                \* the script's max_day
    selected_day_range,     \* widget value <<lo, hi>>
    filtered_df,            \* the script's filtered_df
    view                    \* what the last run put on the page

vars == <<csv, cache, df, phase, selected_medications, year_range,
          selected_months, max_day, selected_day_range, filtered_df, view>>

\* Longest pharma.csv considered.
MaxRows == 2

\* ---------------------------------------------------------------- nulls
NaN == <<>>
NaT == <<>>
Unset == <<>>
Num(v) == <<v>>
IsNull(x) == x = <<>>

\* ---------------------------------------------------------------- input
\* Rows of pharma.csv: the Date text as written (year, month, day), or <<>>
\* for text that is no date at all, and the two medication cells.
RawRow(date, a, b) == [Date |-> date, A |-> a, B |-> b]

SampleRows ==
    { RawRow(<<2023, 1, 2>>, Num(1), Num(2)),
      RawRow(<<2023, 1, 31>>, Num(2), NaN),
      RawRow(<<2024, 1, 5>>, Num(1), Num(1)),
      RawRow(<<2024, 2, 29>>, NaN, Num(1)),
      RawRow(<<2024, 4, 30>>, Num(2), Num(2)),
      RawRow(<<2023, 2, 30>>, Num(2), Num(1)),
      RawRow(<<>>, Num(1), Num(2)) }

CsvFiles == UNION { [1..n -> SampleRows] : n \in 1..MaxRows }

\* The header of pharma.csv followed by the columns load_data adds.
csv_columns == <<"Date", "A", "B">>
df_columns == csv_columns \o <<"Day", "Month", "Year", "Weekday Name">>

\* ------------------------------------------------------------ load_data
IsLeap(y) == (y % 4 = 0 /\ y % 100 # 0) \/ y % 400 = 0

DaysInMonth(y, m) ==
    IF m = 2 THEN (IF IsLeap(y) THEN 29 ELSE 28)
    ELSE IF m \in {4, 6, 9, 11} THEN 30 ELSE 31

\* pd.to_datetime(..., errors='coerce'): text that is no calendar date is NaT.
to_datetime(raw) ==
    IF Len(raw) = 3 /\ raw[2] \in 1..12 /\ raw[3] >= 1
       /\ raw[3] <= DaysInMonth(raw[1], raw[2])
    THEN raw ELSE NaT

weekday_order ==
    <<"Monday", "Tuesday", "Wednesday", "Thursday", "Friday", "Saturday", "Sunday">>

\* Days from 0001-01-01 (a Monday) to the date.
DaysBeforeYear(y) == (y - 1) * 365 + (y - 1) \div 4 - (y - 1) \div 100 + (y - 1) \div 400

RECURSIVE DaysBeforeMonth(_, _)
DaysBeforeMonth(y, m) ==
    IF m = 1 THEN 0 ELSE DaysBeforeMonth(y, m - 1) + DaysInMonth(y, m - 1)

Ordinal(d) == DaysBeforeYear(d[1]) + DaysBeforeMonth(d[1], d[2]) + d[3]

\* Series.dt.day_name(): NaT has no name.
day_name(d) == IF IsNull(d) THEN NaN ELSE <<weekday_order[((Ordinal(d) - 1) % 7) + 1]>>

DatePart(d, i) == IF IsNull(d) THEN NaN ELSE Num(d[i])

LoadRow(r) ==
    LET d == to_datetime(r.Date) IN
    [Date |-> d, A |-> r.A, B |-> r.B,
     Day |-> DatePart(d, 3), Month |-> DatePart(d, 2), Year |-> DatePart(d, 1),
     WeekdayName |-> day_name(d)]

load_data(file) == [i \in 1..Len(file) |-> LoadRow(file[i])]

\* --------------------------------------------------------- the sidebar
derived_columns == {"Date", "Day", "Month", "Year", "Weekday Name"}

\* Line 28: every column that is neither Date nor derived from it.
medication_columns == SelectSeq(df_columns, LAMBDA col : col \notin derived_columns)

\* Line 32: the default of the medication multiselect.
DefaultMedications ==
    IF Len(medication_columns) > 0 THEN <<medication_columns[1]>> ELSE <<>>

\* The selections the medication multiselect can return, in picking order.
MedicationChoices ==
    { s \in UNION { [1..n -> { medication_columns[i] : i \in DOMAIN medication_columns }] :
                    n \in 0..Len(medication_columns) } :
        \A i, j \in DOMAIN s : i # j => s[i] # s[j] }

\* Series.min() / Series.max() skip the nulls.
Years(d) == { d[i].Year[1] : i \in { j \in DOMAIN d : ~IsNull(d[j].Year) } }
SetMin(S) == CHOOSE x \in S : \A y \in S : x <= y
SetMax(S) == CHOOSE x \in S : \A y \in S : x >= y

\* Line 36: int(NaN) raises when no Date of the file could be parsed.
YearBoundsRaise(d) == Years(d) = {}
min_year(d) == SetMin(Years(d))
max_year(d) == SetMax(Years(d))

\* Line 45: the distinct Month values, the null among them when a Date is NaT.
available_months(d) == { d[i].Month : i \in DOMAIN d }

DefaultMonth == 1

\* Lines 46-50: st.multiselect refuses a default that is not one of its options.
MonthsDefaultRaises(d) == Num(DefaultMonth) \notin available_months(d)

DefaultMaxDay == 31
ThirtyDayCap == 30
FebruaryCap == 28

\* Lines 53-61.
MaxDayOf(months) ==
    IF Cardinality(months) = 1
    THEN LET month == CHOOSE m \in months : TRUE IN
         IF month \in {Num(4), Num(6), Num(9), Num(11)} THEN ThirtyDayCap
         ELSE IF month = Num(2) THEN FebruaryCap
         ELSE DefaultMaxDay
    ELSE DefaultMaxDay

\* DaySlider with the value carried over whatever the new max_value is.
DaySliderKeepsValue(old_max, old_value, new_max) ==
    IF ~IsNull(old_value) THEN old_value ELSE <<1, new_max>>

\* Lines 63-68: the slider has no key, so its identity is its arguments.  With
\* the same max_value it keeps the value the user left; with another it is a
\* new slider showing its default, (1, max_day).
DaySlider(old_max, old_value, new_max) ==
    IF old_max = Num(new_max) /\ ~IsNull(old_value)
    THEN old_value ELSE <<1, new_max>>

\* ----------------------------------------------------------- the filter
\* Comparisons of a column with a number: a null compares False.
Ge(x, n) == ~IsNull(x) /\ x[1] >= n
Le(x, n) == ~IsNull(x) /\ x[1] <= n
\* Series.isin: a value of the list matches, and NaN matches NaN.
isin(x, values) == x \in values

\* RowMask with the lower year bound exclusive.
RowMaskStrictYear(r, yr, months, dr) ==
    /\ ~IsNull(r.Year) /\ r.Year[1] > yr[1]
    /\ Le(r.Year, yr[2])
    /\ isin(r.Month, months)
    /\ Ge(r.Day, dr[1])
    /\ Le(r.Day, dr[2])

\* RowMask with each bound written as the negation of the opposite comparison,
\* which a null passes.
RowMaskByNegation(r, yr, months, dr) ==
    /\ ~(~IsNull(r.Year) /\ r.Year[1] < yr[1])
    /\ ~(~IsNull(r.Year) /\ r.Year[1] > yr[2])
    /\ isin(r.Month, months)
    /\ ~(~IsNull(r.Day) /\ r.Day[1] < dr[1])
    /\ ~(~IsNull(r.Day) /\ r.Day[1] > dr[2])

\* Lines 72-76, the mask of one row.
RowMask(r, yr, months, dr) ==
    /\ Ge(r.Year, yr[1])
    /\ Le(r.Year, yr[2])
    /\ isin(r.Month, months)
    /\ Ge(r.Day, dr[1])
    /\ Le(r.Day, dr[2])

\* Lines 71-77: filtered_df, the rows of df the mask keeps, in df's order.
Filter(d, yr, months, dr) == SelectSeq(d, LAMBDA r : RowMask(r, yr, months, dr))

\* The filter assigned back to df.
DfAfterFilterInPlace(d, yr, months, dr) == Filter(d, yr, months, dr)

\* Lines 71-77 bind filtered_df to a new frame; df itself is what it was.
DfAfterFilter(d, yr, months, dr) == d

\* ------------------------------------------------------- column helpers
\* The non-null values of a column, in row order.
RECURSIVE Values(_, _)
Values(f, col) ==
    IF f = <<>> THEN <<>>
    ELSE (IF IsNull(Head(f)[col]) THEN <<>> ELSE <<Head(f)[col][1]>>) \o Values(Tail(f), col)

RECURSIVE Sum(_)
Sum(xs) == IF xs = <<>> THEN 0 ELSE Head(xs) + Sum(Tail(xs))

RECURSIVE SumSq(_)
SumSq(xs) == IF xs = <<>> THEN 0 ELSE Head(xs) * Head(xs) + SumSq(Tail(xs))

RECURSIVE Insert(_, _)
Insert(x, sorted) ==
    IF sorted = <<>> THEN <<x>>
    ELSE IF x <= Head(sorted) THEN <<x>> \o sorted
    ELSE <<Head(sorted)>> \o Insert(x, Tail(sorted))

RECURSIVE Sorted(_)
Sorted(xs) == IF xs = <<>> THEN <<>> ELSE Insert(Head(xs), Sorted(Tail(xs)))

Frac(n, d) == <<[num |-> n, den |-> d]>>

\* Series.mean(): the mean of the non-null values, null when there is none.
Mean(xs) == IF xs = <<>> THEN NaN ELSE Frac(Sum(xs), Len(xs))

\* ------------------------------------------------------ weekly pattern
\* groupby sorts its keys as text.
alphabetical_weekdays ==
    <<"Friday", "Monday", "Saturday", "Sunday", "Thursday", "Tuesday", "Wednesday">>

MeansOf(rows, meds) == [k \in 1..Len(meds) |-> Mean(Values(rows, meds[k]))]

\* Line 116: groupby('Weekday Name')[meds].mean().reset_index(): one row for
\* every key that occurs, rows without a key left out, keys in text order.
GroupByWeekday(f, meds) ==
    LET keys == SelectSeq(alphabetical_weekdays,
                          LAMBDA w : \E i \in DOMAIN f : f[i].WeekdayName = <<w>>)
    IN  [g \in 1..Len(keys) |->
            [WeekdayName |-> keys[g],
             mean |-> MeansOf(SelectSeq(f, LAMBDA r : r.WeekdayName = <<keys[g]>>), meds)]]

\* Line 119: the code of a name in the ordered Categorical.
CategoryCode(w) == CHOOSE c \in DOMAIN weekday_order : weekday_order[c] = w

RECURSIVE InsertByCode(_, _)
InsertByCode(row, sorted) ==
    IF sorted = <<>> THEN <<row>>
    ELSE IF CategoryCode(row.WeekdayName) <= CategoryCode(Head(sorted).WeekdayName)
         THEN <<row>> \o sorted
    ELSE <<Head(sorted)>> \o InsertByCode(row, Tail(sorted))

\* Line 120: sort_values on the Categorical column.
RECURSIVE SortByWeekday(_)
SortByWeekday(rows) ==
    IF rows = <<>> THEN <<>> ELSE InsertByCode(Head(rows), SortByWeekday(Tail(rows)))

\* weekday_df left in groupby's order.
WeekdayDfUnsorted(f, meds) == GroupByWeekday(f, meds)

\* Lines 116-120: weekday_df.
WeekdayDf(f, meds) == SortByWeekday(GroupByWeekday(f, meds))

\* ----------------------------------------------------------- statistics
\* The population variance (denominator n), defined from one value on.
StdPopulation(xs) ==
    LET n == Len(xs) IN
    IF n < 1 THEN NaN
    ELSE Frac(n * SumSq(xs) - Sum(xs) * Sum(xs), n * n)

\* The sample variance (denominator n - 1); std is its square root, and is
\* null when fewer than two values are present.
Std(xs) ==
    LET n == Len(xs) IN
    IF n < 2 THEN NaN
    ELSE Frac(n * SumSq(xs) - Sum(xs) * Sum(xs), n * (n - 1))

\* describe()'s percentiles, k quarters of the way through the sorted values,
\* interpolated linearly between the two neighbours.
Quartile(xs, k) ==
    LET s == Sorted(xs)
        n == Len(xs)
        lo == ((n - 1) * k) \div 4
        r == ((n - 1) * k) % 4
        hi == IF lo + 2 <= n THEN lo + 2 ELSE n
    IN  IF n = 0 THEN NaN ELSE Frac(s[lo + 1] * (4 - r) + s[hi] * r, 4)

\* Lines 137-140: the row of stats_df for one medication column.
StatsRow(f, col) ==
    LET xs == Values(f, col) IN
    [column |-> col,
     Count |-> Len(xs),
     Mean |-> Mean(xs),
     StdDev |-> Std(xs),
     Min |-> IF xs = <<>> THEN NaN ELSE Num(Sorted(xs)[1]),
     Q25 |-> Quartile(xs, 1),
     Median |-> Quartile(xs, 2),
     Q75 |-> Quartile(xs, 3),
     Max |-> IF xs = <<>> THEN NaN ELSE Num(Sorted(xs)[Len(xs)]),
     Total |-> Sum(xs)]

StatsDf(f, meds) == [k \in 1..Len(meds) |-> StatsRow(f, meds[k])]

\* ---------------------------------------------------------- correlation
\* The rows in which both columns have a value.
Pairs(f, c1, c2) == SelectSeq(f, LAMBDA r : ~IsNull(r[c1]) /\ ~IsNull(r[c2]))

RECURSIVE SumProd(_, _, _)
SumProd(f, c1, c2) ==
    IF f = <<>> THEN 0 ELSE Head(f)[c1][1] * Head(f)[c2][1] + SumProd(Tail(f), c1, c2)

\* Corr with a column always at 1.0 against itself.
CorrUnitDiagonal(f, c1, c2) ==
    LET p == Pairs(f, c1, c2)
        n == Len(p)
        sx == Sum(Values(p, c1))
        sy == Sum(Values(p, c2))
        vx == n * SumProd(p, c1, c1) - sx * sx
        vy == n * SumProd(p, c2, c2) - sy * sy
    IN  IF c1 = c2 THEN <<[num |-> 1, den2 |-> 1]>>
        ELSE IF n < 1 \/ vx * vy = 0 THEN NaN
        ELSE <<[num |-> n * SumProd(p, c1, c2) - sx * sy, den2 |-> vx * vy]>>

\* DataFrame.corr(): Pearson's r over the pairs, num / sqrt(den2); null when
\* there is no pair or when the divisor is zero (a single pair, or a column
\* that does not vary over the pairs).
Corr(f, c1, c2) ==
    LET p == Pairs(f, c1, c2)
        n == Len(p)
        sx == Sum(Values(p, c1))
        sy == Sum(Values(p, c2))
        vx == n * SumProd(p, c1, c1) - sx * sx
        vy == n * SumProd(p, c2, c2) - sy * sy
    IN  IF n < 1 \/ vx * vy = 0 THEN NaN
        ELSE <<[num |-> n * SumProd(p, c1, c2) - sx * sy, den2 |-> vx * vy]>>

\* Line 145: corr_matrix, one cell for every pair of selected columns.
CorrMatrix(f, meds) ==
    [i \in 1..Len(meds) |-> [j \in 1..Len(meds) |-> Corr(f, meds[i], meds[j])]]

\* A correlation cell that is exactly 1.0.
IsOne(c) == ~IsNull(c) /\ c[1].num > 0 /\ c[1].num * c[1].num = c[1].den2

\* ---------------------------------------------------- the main display
\* Series.min() / Series.max() of the Date column: NaT when no row has a date.
DateOrdinals(f) == { Ordinal(f[i].Date) : i \in { j \in DOMAIN f : ~IsNull(f[j].Date) } }
DateMin(f) ==
    IF DateOrdinals(f) = {} THEN NaT
    ELSE (CHOOSE r \in { f[i] : i \in DOMAIN f } :
             ~IsNull(r.Date) /\ Ordinal(r.Date) = SetMin(DateOrdinals(f))).Date
DateMax(f) ==
    IF DateOrdinals(f) = {} THEN NaT
    ELSE (CHOOSE r \in { f[i] : i \in DOMAIN f } :
             ~IsNull(r.Date) /\ Ordinal(r.Date) = SetMax(DateOrdinals(f))).Date

\* strftime('%Y-%m-%d') of a date; NaT has no strftime and raises ValueError.
StrftimeRaises(d) == IsNull(d)
TwoDigits(n) == IF n < 10 THEN "0" \o ToString(n) ELSE ToString(n)
strftime(d) == ToString(d[1]) \o "-" \o TwoDigits(d[2]) \o "-" \o TwoDigits(d[3])

Absent == [kind |-> "absent"]
NoData == [kind |-> "warning", text |-> "No data available for the selected filters."]

Page(exc, line, warn, summary, t1, t2, t3) ==
    [exception |-> exc, line |-> line, warning |-> warn, summary |-> summary,
     tab1 |-> t1, tab2 |-> t2, tab3 |-> t3]

\* Lines 97-111: the time series tab.
Tab1(f, meds) ==
    IF f # <<>>
    THEN [kind |-> "line chart",
          x |-> [i \in 1..Len(f) |-> f[i].Date],
          y |-> [k \in 1..Len(meds) |-> [i \in 1..Len(f) |-> f[i][meds[k]]]]]
    ELSE NoData

\* Lines 113-132: the weekly pattern tab.
Tab2(f, meds) ==
    IF f # <<>> THEN [kind |-> "bar chart", weekday_df |-> WeekdayDf(f, meds)] ELSE NoData

\* Lines 134-156: the statistics tab.
Tab3(f, meds) ==
    IF f # <<>>
    THEN [kind |-> "statistics", stats_df |-> StatsDf(f, meds),
          corr_matrix |-> CorrMatrix(f, meds)]
    ELSE NoData

\* Lines 82-156.
Render(f, meds) ==
    IF meds = <<>>
    THEN Page("none", 0, TRUE, Unset, Absent, Absent, Absent)
    ELSE IF StrftimeRaises(DateMin(f)) \/ StrftimeRaises(DateMax(f))
    THEN Page("ValueError", 87, FALSE, Unset, Absent, Absent, Absent)
    ELSE Page("none", 0, FALSE,
              <<[from |-> strftime(DateMin(f)), to |-> strftime(DateMax(f)),
                 total |-> Len(f)]>>,
              Tab1(f, meds), Tab2(f, meds), Tab3(f, meds))

\* -------------------------------------------------------- one script run
\* One run of the script with the values the widgets hold when it starts:
\* meds, yr and months as the user left them, day_req the day range the user
\* has just set, or Unset when this run is not a change of the day slider.
Run(first, meds_in, yr_in, months_in, day_req) ==
    LET d == IF IsNull(cache) THEN load_data(csv) ELSE cache
        meds == IF first THEN DefaultMedications ELSE meds_in
    IN
    /\ cache' = d
    /\ phase' = IF first THEN "initial" ELSE "interactive"
    /\ selected_medications' = meds
    /\ UNCHANGED csv
    /\ IF YearBoundsRaise(d)
       THEN /\ df' = d
            /\ year_range' = Unset
            /\ selected_months' = {}
            /\ max_day' = Unset
            /\ selected_day_range' = Unset
            /\ filtered_df' = Unset
            /\ view' = Page("ValueError", 36, FALSE, Unset, Absent, Absent, Absent)
       ELSE LET yr == IF first THEN <<min_year(d), max_year(d)>> ELSE yr_in IN
            /\ year_range' = yr
            /\ IF MonthsDefaultRaises(d)
               THEN /\ df' = d
                    /\ selected_months' = {}
                    /\ max_day' = Unset
                    /\ selected_day_range' = Unset
                    /\ filtered_df' = Unset
                    /\ view' = Page("StreamlitAPIException", 46, FALSE, Unset,
                                    Absent, Absent, Absent)
               ELSE LET months == IF first THEN {Num(DefaultMonth)} ELSE months_in
                        md == MaxDayOf(months)
                        dr == IF IsNull(day_req)
                              THEN DaySlider(max_day, selected_day_range, md)
                              ELSE day_req
                        f == Filter(d, yr, months, dr)
                    IN  /\ selected_months' = months
                        /\ max_day' = Num(md)
                        /\ selected_day_range' = dr
                        /\ filtered_df' = f
                        /\ df' = DfAfterFilter(d, yr, months, dr)
                        /\ view' = Render(f, meds)

\* The session starts: the script runs with every widget at its default.
FirstRun ==
    /\ phase = "start"
    /\ Run(TRUE, Unset, Unset, {}, Unset)

\* The user changes the medication multiselect (lines 29-33).
SelectMedications ==
    /\ phase # "start"
    /\ \E m \in MedicationChoices :
          /\ m # selected_medications
          /\ Run(FALSE, m, year_range, selected_months, Unset)

\* The user moves the year slider (lines 37-42).
SetYearRange ==
    /\ phase # "start"
    /\ ~IsNull(year_range)
    /\ \E lo, hi \in min_year(df)..max_year(df) :
          /\ lo <= hi
          /\ <<lo, hi>> # year_range
          /\ Run(FALSE, selected_medications, <<lo, hi>>, selected_months, Unset)

\* The user changes the month multiselect (lines 46-50).
SelectMonths ==
    /\ phase # "start"
    /\ ~IsNull(max_day)
    /\ \E months \in SUBSET available_months(df) :
          /\ months # selected_months
          /\ Run(FALSE, selected_medications, year_range, months, Unset)

\* The slider positions tried, out of 1..max_day.
DayStops(md) == { n \in {1, 29, md} : n <= md }

\* The user moves the day slider (lines 63-68).
SetDayRange ==
    /\ phase # "start"
    /\ ~IsNull(max_day)
    /\ \E lo, hi \in DayStops(max_day[1]) :
          /\ lo <= hi
          /\ <<lo, hi>> # selected_day_range
          /\ Run(FALSE, selected_medications, year_range, selected_months, <<lo, hi>>)

Init ==
    /\ csv \in CsvFiles
    /\ cache = Unset
    /\ df = Unset
    /\ phase = "start"
    /\ selected_medications = Unset
    /\ year_range = Unset
    /\ selected_months = {}
    /\ max_day = Unset
    /\ selected_day_range = Unset
    /\ filtered_df = Unset
    /\ view = Page("none", 0, FALSE, Unset, Absent, Absent, Absent)

Next ==
    \/ FirstRun
    \/ SelectMedications
    \/ SetYearRange
    \/ SelectMonths
    \/ SetDayRange

Spec == Init /\ [][Next]_vars

\* ================================================================ claims
\* The run got past the sidebar (line 68) and evaluated the filter.
FilterRan == ~IsNull(max_day)

\* At least one Date of the file was parsed (otherwise line 36 aborts start-up).
HasDates == \E i \in DOMAIN csv : ~IsNull(to_datetime(csv[i].Date))

Occurrences(rows, r) == Cardinality({ i \in DOMAIN rows : rows[i] = r })

\* The three predicates of the filter on a record, null parts failing them.
InRanges(r) ==
    /\ ~IsNull(r.Year) /\ year_range[1] <= r.Year[1] /\ r.Year[1] <= year_range[2]
    /\ r.Month \in selected_months
    /\ ~IsNull(r.Day) /\ selected_day_range[1] <= r.Day[1]
    /\ r.Day[1] <= selected_day_range[2]

\* C1: whenever the filter ran, filtered_df holds exactly the records of df
\* whose Year is in year_range, whose Month is in selected_months and whose Day
\* is in selected_day_range, each as often as df holds it; the condition names
\* no medication, so the medication selection decides nothing about the rows.
C1_FilterExact ==
    FilterRan =>
        /\ \A i \in DOMAIN filtered_df : InRanges(filtered_df[i])
        /\ \A i \in DOMAIN df :
              InRanges(df[i]) => Occurrences(filtered_df, df[i]) = Occurrences(df, df[i])

C1_Witness ==
    /\ phase = "interactive"
    /\ FilterRan
    /\ filtered_df # <<>>
    /\ \E i \in DOMAIN df :
          /\ ~IsNull(df[i].Date)
          /\ Occurrences(filtered_df, df[i]) = 0
          /\ df[i].Year[1] = year_range[1]
    /\ \E i \in DOMAIN filtered_df : filtered_df[i].Year[1] = year_range[1]

\* C2 (as claimed): with a medication selected and an empty filtered subset the
\* run raises nothing and each of the three tabs shows the "no data" warning.
C2_EmptySubsetShowsNoData ==
    (phase # "start" /\ FilterRan /\ selected_medications # <<>> /\ filtered_df = <<>>)
        => /\ view.exception = "none"
           /\ view.tab1 = NoData
           /\ view.tab2 = NoData
           /\ view.tab3 = NoData

\* C3 (as claimed): with no medication selected the page shows the "select at
\* least one medication" warning and nothing else, and nothing is raised.
C3_NoMedicationOnlyWarning ==
    (phase # "start" /\ HasDates /\ selected_medications = <<>>)
        => /\ view.exception = "none"
           /\ view.warning
           /\ IsNull(view.summary)
           /\ view.tab1 = Absent
           /\ view.tab2 = Absent
           /\ view.tab3 = Absent

\* The cap of the day range as the specification words it.
DayCap(months) ==
    IF Cardinality(months) = 1 /\ months \subseteq {Num(4), Num(6), Num(9), Num(11)} THEN 30
    ELSE IF months = {Num(2)} THEN 28
    ELSE 31

\* C4: whenever the filter ran, max_day is 30 for a single month out of 4, 6,
\* 9, 11, 28 for month 2 alone and 31 otherwise, and the day range the filter
\* used satisfies 1 <= minDay <= maxDay <= max_day.
C4_DayRangeCapped ==
    FilterRan =>
        /\ max_day = Num(DayCap(selected_months))
        /\ 1 <= selected_day_range[1]
        /\ selected_day_range[1] <= selected_day_range[2]
        /\ selected_day_range[2] <= DayCap(selected_months)

C4_Witness ==
    /\ phase = "interactive"
    /\ FilterRan
    /\ selected_months = {Num(2)}
    /\ selected_day_range = <<1, 28>>
    /\ filtered_df = <<>>
    /\ \E i \in DOMAIN df : df[i].Month = Num(2) /\ df[i].Day = Num(29)

\* C5: a record whose Date did not parse is never in filtered_df, whatever the
\* ranges and the months selected (the null month included), and no run raises
\* in load_data (lines 11-20) or in the filter (lines 71-77).
C5_NullDatesExcluded ==
    /\ FilterRan => \A i \in DOMAIN filtered_df : ~IsNull(filtered_df[i].Date)
    /\ view.exception # "none" => view.line \notin (11..20) \cup (71..77)

C5_Witness ==
    /\ phase = "interactive"
    /\ FilterRan
    /\ NaN \in selected_months
    /\ filtered_df # <<>>
    /\ \E i \in DOMAIN df : IsNull(df[i].Date)

\* C6: after every run df and the cached frame are the frame load_data made of
\* the file, and filtered_df and the page are what the current widget values
\* give on that frame, whatever the earlier interactions were.
C6_DatasetUnchanged ==
    phase # "start" =>
        /\ df = load_data(csv)
        /\ cache = load_data(csv)
        /\ FilterRan =>
              /\ \A i \in DOMAIN filtered_df : InRanges(filtered_df[i])
              /\ Len(filtered_df) = Cardinality({ i \in DOMAIN df : InRanges(df[i]) })
              /\ view = Render(filtered_df, selected_medications)

C6_Witness ==
    /\ phase = "interactive"
    /\ FilterRan
    /\ filtered_df # <<>>
    /\ Len(filtered_df) < Len(df)
    /\ view.tab3.kind = "statistics"

WeekdayCode(w) == CHOOSE c \in 1..7 : weekday_order[c] = w

\* C7: a weekly pattern chart has one row for each weekday name that occurs in
\* filtered_df, none for any other, and its rows run from Monday to Sunday.
C7_WeekdayOrder ==
    view.tab2.kind = "bar chart" =>
        LET w == view.tab2.weekday_df IN
        /\ { <<w[i].WeekdayName>> : i \in DOMAIN w }
              = { filtered_df[i].WeekdayName : i \in DOMAIN filtered_df }
        /\ \A i, j \in DOMAIN w :
              i < j => WeekdayCode(w[i].WeekdayName) < WeekdayCode(w[j].WeekdayName)
        /\ \A i \in DOMAIN w : Len(w[i].mean) = Len(selected_medications)

C7_Witness ==
    /\ view.tab2.kind = "bar chart"
    /\ Len(view.tab2.weekday_df) = 2
    /\ filtered_df[1].WeekdayName = <<"Friday">>
    /\ filtered_df[2].WeekdayName = <<"Monday">>
    /\ view.tab2.weekday_df[1].WeekdayName = "Monday"

NonNullCells(col) == { i \in DOMAIN filtered_df : ~IsNull(filtered_df[i][col]) }

RECURSIVE TotalOver(_, _)
TotalOver(col, cells) ==
    IF cells = {} THEN 0
    ELSE LET i == CHOOSE c \in cells : TRUE IN
         filtered_df[i][col][1] + TotalOver(col, cells \ {i})

\* C8: a statistics table has one row for each selected medication, whose Count
\* is the number of non-null values of the column in filtered_df, whose Total
\* is their sum, and whose Std Dev is null whenever Count < 2.
C8_StatsSummary ==
    view.tab3.kind = "statistics" =>
        LET st == view.tab3.stats_df IN
        /\ Len(st) = Len(selected_medications)
        /\ \A k \in DOMAIN st :
              /\ st[k].column = selected_medications[k]
              /\ st[k].Count = Cardinality(NonNullCells(st[k].column))
              /\ st[k].Total = TotalOver(st[k].column, NonNullCells(st[k].column))
              /\ st[k].Count < 2 => IsNull(st[k].StdDev)

C8_Witness ==
    /\ view.tab3.kind = "statistics"
    /\ Len(filtered_df) = 2
    /\ \E k \in DOMAIN view.tab3.stats_df :
          /\ view.tab3.stats_df[k].Count = 1
          /\ view.tab3.stats_df[k].Total = 2
          /\ IsNull(view.tab3.stats_df[k].StdDev)

\* C9 (as claimed): the first run selects month 1, the first medication, the
\* full year range and days 1 to 31 whatever the file holds, raises nothing,
\* and with no January record shows the "no data" warning in the three tabs.
C9_DefaultMonthIsJanuary ==
    (phase = "initial" /\ HasDates) =>
        /\ selected_months = {Num(1)}
        /\ selected_medications = <<"A">>
        /\ year_range = <<min_year(df), max_year(df)>>
        /\ selected_day_range = <<1, 31>>
        /\ view.exception = "none"
        /\ (\A i \in DOMAIN df : df[i].Month # Num(1))
              => view.tab1 = NoData /\ view.tab2 = NoData /\ view.tab3 = NoData

\* The values of the one selected column vary over filtered_df.
SelectedColumnVaries ==
    \E i, j \in NonNullCells(selected_medications[1]) :
        filtered_df[i][selected_medications[1]] # filtered_df[j][selected_medications[1]]

OneSelected == view.tab3.kind = "statistics" /\ Len(selected_medications) = 1

\* C10 (as claimed): with exactly one medication selected and a non-empty
\* filtered subset the correlation matrix is 1x1 and its value is 1.0.
C10_SingleColumnCorrIsOne ==
    OneSelected =>
        /\ Len(view.tab3.corr_matrix) = 1
        /\ Len(view.tab3.corr_matrix[1]) = 1
        /\ IsOne(view.tab3.corr_matrix[1][1])

\* C10 (amended): with exactly one medication selected and a non-empty filtered
\* subset the correlation matrix is 1x1; its value is 1.0 when the column has
\* two different values in the subset and null otherwise (a single row, a
\* column without variance, a column without values).
C10_SingleColumnCorr ==
    OneSelected =>
        /\ Len(view.tab3.corr_matrix) = 1
        /\ Len(view.tab3.corr_matrix[1]) = 1
        /\ SelectedColumnVaries => IsOne(view.tab3.corr_matrix[1][1])
        /\ ~SelectedColumnVaries => IsNull(view.tab3.corr_matrix[1][1])

C10_Witness ==
    /\ OneSelected
    /\ Len(filtered_df) = 2
    /\ ~SelectedColumnVaries
    /\ Cardinality(NonNullCells(selected_medications[1])) = 2
    /\ IsNull(view.tab3.corr_matrix[1][1])
====
